---- MODULE Spec2Model ----
(***************************************************************************)
(* A model of main.ipynb, the notebook that fine-tunes a causal language   *)
(* model with LoRA adapters to suggest shell scripts.  The notebook's own  *)
(* logic is modelled: the cache-directory resolver, the load branch, the   *)
(* prompt formatter, the tokenize wrapper, the order of the cells and the  *)
(* extraction of the answer from the decoded text in runExample.           *)
(*                                                                         *)
(* Text is a sequence of characters, one string each, so that str.split,   *)
(* str.strip, str.replace and the f-strings are computed character by      *)
(* character, as Python computes them.  An ASCII character is written as   *)
(* itself, a character above U+007F as the name of its code point.         *)
(***************************************************************************)
EXTENDS Integers, Sequences, FiniteSets, TLC

VARIABLES
    \* ---- the text functions (format, runExample) ----
    call,          \* which function the harness calls: "format", "runExample", "cell"
    pc,            \* "start" before the call, "done" after it
    example,       \* the dataset row given to format
    prompt,        \* the argument of runExample
    generated,     \* the text model.generate appends to the prompt
    formatted,     \* the value format returned
    output_text,   \* tokenizer.decode(outputs[0], skip_special_tokens=True)
    main_output,   \* what runExample returned, or the exception it raised
    \* ---- the tokenizer ----
    raw_len,       \* number of token ids the vocabulary gives the formatted row
    padding_side,  \* the loaded tokenizer's padding side (never set by the notebook)
    input_ids,     \* the input_ids of the last tokenizer(...) call of tokenize
    pad_token,     \* tokenizer.pad_token
    pad_assigns,   \* how many times tokenizer.pad_token was assigned
    \* ---- the notebook run ----
    cwd,           \* the working directory of the kernel
    mounts,        \* absolute paths that are mount points
    existing,      \* absolute paths that exist
    HF_HOME,       \* os.environ["HF_HOME"]
    XDG_CACHE_HOME, \* os.environ["XDG_CACHE_HOME"], never written by the notebook
    HF_HUB_CACHE,  \* os.environ["HF_HUB_CACHE"], never written by the notebook
    hub_cache,     \* the cache directory the library fixed when it was imported
    HF_HOME0,      \* its value before the resolver cell
    model_dir,     \* the resolver's result
    cell,          \* the cell being executed, "done" or "halted"
    log,           \* the cells executed so far, each with how it ended
    tokenizer_src, \* what AutoTokenizer.from_pretrained was given
    model_src,     \* what AutoModelForCausalLM.from_pretrained was given
    cache_dest,    \* where a fetch by identifier is cached
    rows,          \* number of rows of dataset.csv
    rows_done      \* rows dataset.map has passed to tokenize

textVars == <<call, pc, example, prompt, generated, formatted, output_text, main_output>>
tokVars  == <<raw_len, padding_side, input_ids, pad_token, pad_assigns>>
runVars  == <<cwd, mounts, existing, HF_HOME, XDG_CACHE_HOME, HF_HUB_CACHE, hub_cache,
              HF_HOME0, model_dir, cell, log,
              tokenizer_src, model_src, cache_dest, rows, rows_done>>
\* what no cell but the named ones writes
envVars == <<cwd, mounts, existing, XDG_CACHE_HOME, HF_HUB_CACHE, HF_HOME0>>
vars == <<textVars, tokVars, runVars>>

(***************************************************************************)
(* Bounds of the model.                                                    *)
(***************************************************************************)
\* chunks in a decoded text given directly to the extraction
MaxChunks == 4
\* chunks in a generated continuation (stands for max_new_tokens tokens)
MaxGenChunks == 4
\* rows of the dataset
MaxRows == 2
\* raw token count of a row goes from 0 to max_length + MaxOverflow
MaxOverflow == 2

(***************************************************************************)
(* Literals of the source.                                                 *)
(***************************************************************************)
\* "### Instruction:\n", the text before the first field of the f-string
InstructionHeader == <<"#","#","#"," ","I","n","s","t","r","u","c","t","i","o","n",":","\n">>
\* "\n\n### Output:\n", the text between the two fields of the f-string
OutputHeader == <<"\n","\n","#","#","#"," ","O","u","t","p","u","t",":","\n">>
\* "### Output:", the separator of the first split in runExample
OutputMarker == <<"#","#","#"," ","O","u","t","p","u","t",":">>
\* "###", the separator of the second split in runExample
SectionMarker == <<"#","#","#">>
\* the prompt of the first inference cell
Prompt298 == <<"#","#","#"," ","I","n","s","t","r","u","c","t","i","o","n",":","\n","M","o","v","e"," ","a","l","l"," ","f","i","l","e","s"," ","f","r","o","m"," ","A"," ","t","o"," ","B","\n","\n","#","#","#"," ","O","u","t","p","u","t",":","\n">>
\* the 29 characters str.strip() removes.  The twelve up to U+00FF: tab, line
\* feed, vertical tab, form feed, carriage return, the separators 1C to 1F
\* and space as themselves; next line (85) and no-break space (A0), like
\* every character above U+007F, as the name of the code point
Latin1Whitespace == {"\t", "\n", "", "\f", "\r", "", "", "", "", " ", "U+0085", "U+00A0"}
\* the seventeen beyond U+00FF
WideWhitespace == {"U+1680", "U+2000", "U+2001", "U+2002", "U+2003", "U+2004", "U+2005", "U+2006", "U+2007", "U+2008", "U+2009", "U+200A", "U+2028", "U+2029", "U+202F", "U+205F", "U+3000"}
Whitespace == Latin1Whitespace \cup WideWhitespace
\* vertical tab and no-break space, for the texts the model draws
VerticalTab == ""
NoBreakSpace == "U+00A0"
\* e with acute accent, a character above U+007F that str.strip() keeps
EAcute == "U+00E9"

(***************************************************************************)
(* Python's string operations.                                             *)
(***************************************************************************)
Min(S) == CHOOSE x \in S : \A y \in S : x <= y

\* str.find, 1-based: the least index where sep occurs in s, 0 when absent
Find(s, sep) ==
    LET idx == {i \in 1..(Len(s) - Len(sep) + 1) : SubSeq(s, i, i + Len(sep) - 1) = sep}
    IN IF idx = {} THEN 0 ELSE Min(idx)

\* str.split(sep): the pieces between the non-overlapping occurrences of sep,
\* scanned from the left; a text without sep is one piece
RECURSIVE split(_, _)
split(s, sep) ==
    LET i == Find(s, sep)
    IN IF i = 0 THEN <<s>>
       ELSE <<SubSeq(s, 1, i - 1)>> \o split(SubSeq(s, i + Len(sep), Len(s)), sep)

RECURSIVE lstrip(_)
lstrip(s) == IF s # <<>> /\ s[1] \in Whitespace THEN lstrip(Tail(s)) ELSE s

RECURSIVE rstrip(_)
rstrip(s) ==
    IF s # <<>> /\ s[Len(s)] \in Whitespace THEN rstrip(SubSeq(s, 1, Len(s) - 1)) ELSE s

\* str.strip()
strip(s) == rstrip(lstrip(s))

\* str.replace(old, new) for one-character old and new
replace(s, old, new) == [i \in 1..Len(s) |-> IF s[i] = old THEN new ELSE s[i]]

(***************************************************************************)
(* format                                                                  *)
(***************************************************************************)
Example(instruction, output) ==
    ("English understanding" :> instruction) @@ ("Shell script" :> output)

\* a formatter that drops the blank line before the output header
format_oneNewline(ex) ==
    InstructionHeader \o ex["English understanding"] \o Tail(OutputHeader)
        \o ex["Shell script"]

format(ex) ==
    InstructionHeader \o ex["English understanding"] \o OutputHeader \o ex["Shell script"]

(***************************************************************************)
(* The extraction of runExample: the value returned, or the IndexError of  *)
(* output_text.split("### Output:")[1] on a list of one piece.             *)
(***************************************************************************)
Returned(v) == [ok |-> TRUE, val |-> v, err |-> "none"]
Raised(e)   == [ok |-> FALSE, val |-> <<>>, err |-> e]

\* an extraction that indexes the last piece, [-1], instead of [1]
ExtractLastPiece(text) ==
    LET parts == split(text, OutputMarker)
    IN Returned(strip(split(strip(parts[Len(parts)]), SectionMarker)[1]))

\* an extraction that forgets the second split
ExtractNoSecondSplit(text) ==
    LET parts == split(text, OutputMarker)
    IN IF Len(parts) < 2 THEN Raised("IndexError")
       ELSE Returned(strip(parts[2]))

ExtractMainOutput(text) ==
    LET parts == split(text, OutputMarker)
    IN IF Len(parts) < 2 THEN Raised("IndexError")
       ELSE Returned(strip(split(strip(parts[2]), SectionMarker)[1]))

(***************************************************************************)
(* Inputs of the text functions.                                           *)
(***************************************************************************)
\* "### Output:\nls\n###", a well-formed output section
WellFormedSection == <<"#","#","#"," ","O","u","t","p","u","t",":","\n","l","s","\n","#","#","#">>
MoveAll == <<"M","o","v","e"," ","a","l","l"," ","f","i","l","e","s"," ","f","r","o","m"," ","A"," ","t","o"," ","B">>

Chunks == {OutputMarker, SectionMarker, <<"#">>, <<"\n">>, <<" ">>, <<"a">>,
           <<VerticalTab>>, <<EAcute>>,
           WellFormedSection}

\* the texts made of at most n chunks
RECURSIVE Texts(_)
Texts(n) ==
    IF n = 0 THEN {<<>>}
    ELSE LET T == Texts(n - 1) IN T \cup {t \o c : t \in T, c \in Chunks}

Instructions == {MoveAll, <<>>, <<"a">>, <<" ","a","\n">>, <<"#">>,
                 OutputMarker \o <<"x">>}
Outputs == {<<>>, <<"l","s">>, <<"\n","l","s"," ">>, SectionMarker,
            <<NoBreakSpace,"l","s",VerticalTab>>,
            <<EAcute,"l","s",EAcute>>,
            <<"m","v"," ","\"","a","\""," ","\\","b">>}

\* what the model generates in the inference cells of a run
Continuations == {<<>>, <<NoBreakSpace,"l","s",VerticalTab>>,
                  <<EAcute,"l","s",EAcute>>,
                  <<"l","s","\n">> \o OutputMarker}

NoExample == Example(<<>>, <<>>)
NoResult  == Raised("not called")

TextIdle ==
    /\ call = "none" /\ pc = "done" /\ example = NoExample /\ prompt = <<>>
    /\ generated = <<>> /\ formatted = <<>> /\ output_text = <<>>
    /\ main_output = NoResult

TextInit ==
    /\ pc = "start"
    /\ formatted = <<>> /\ output_text = <<>> /\ main_output = NoResult
    /\ \/ /\ call = "format"
          /\ \E i \in Instructions, o \in Outputs : example = Example(i, o)
          /\ prompt = <<>> /\ generated = <<>>
       \/ /\ call = "runExample"
          /\ example = NoExample
          /\ prompt \in Texts(MaxChunks) /\ generated = <<>>
       \/ /\ call = "cell"
          /\ \E i \in Instructions : example = Example(i, <<>>)
          /\ prompt = format(example)
          /\ generated \in Texts(MaxGenChunks)

\* format(example)
Format ==
    /\ call = "format" /\ pc = "start"
    /\ formatted' = format(example)
    /\ pc' = "done"
    /\ UNCHANGED <<call, example, prompt, generated, output_text, main_output>>

\* runExample(prompt): generation returns the prompt's tokens followed by the
\* new ones, and the decoded text is the prompt followed by the continuation
RunExample ==
    /\ call \in {"runExample", "cell"} /\ pc = "start"
    /\ output_text' = prompt \o generated
    /\ main_output' = ExtractMainOutput(prompt \o generated)
    /\ pc' = "done"
    /\ UNCHANGED <<call, example, prompt, generated, formatted>>

(***************************************************************************)
(* tokenize: the tokenizer call with truncation and padding to max_length. *)
(***************************************************************************)
max_length == 512
\* the id of the end-of-sequence token; the ids of a row's text are 1, 2, ...
eos_token_id == 0

\* the token ids the vocabulary gives a text of n tokens (position-coded, so
\* that what truncation and padding keep can be told)
Encode(n) == [i \in 1..n |-> i]

\* truncation switched off
TruncateOff(ids) == ids

\* truncation=True: the ids beyond max_length are dropped
Truncate(ids) == IF Len(ids) > max_length THEN SubSeq(ids, 1, max_length) ELSE ids

\* padding="max_length": the pad token id fills up to max_length, on the side
\* the tokenizer is configured to pad
Pad(ids, side, pad_id) ==
    LET fill == [i \in 1..(max_length - Len(ids)) |-> pad_id]
    IN IF side = "left" THEN fill \o ids ELSE ids \o fill

TokIdle ==
    /\ raw_len = 0 /\ padding_side = "right" /\ input_ids = <<>>
    /\ pad_token = "unset" /\ pad_assigns = 0

(***************************************************************************)
(* The notebook run: paths and the file system.                            *)
(***************************************************************************)
model_name == <<"d","e","e","p","s","e","e","k","-","a","i","/","d","e","e","p","s","e","e","k","-","c","o","d","e","r","-","1",".","3","b","-","b","a","s","e">>
mount_point == <<"S","e","a","g","a","t","e">>
\* the literal parts of the f-string that builds model_dir
VolumesPrefix == <<"/","V","o","l","u","m","e","s","/">>
VSWorkspace == <<"/","V","S","W","o","r","k","s","p","a","c","e","/">>
\* "model"
ModelLiteral == <<"m","o","d","e","l">>
\* the parts of the library's default cache directory, ~/.cache/huggingface/hub
DefaultCacheHome == <<"~","/",".","c","a","c","h","e">>
HuggingfaceDir == <<"/","h","u","g","g","i","n","g","f","a","c","e">>
HubDir == <<"/","h","u","b">>

\* the paths of the model's file system
VolumesDir == <<"/","V","o","l","u","m","e","s">>
ContentDir == <<"/","c","o","n","t","e","n","t">>
VolumesSeagate == <<"/","V","o","l","u","m","e","s","/","S","e","a","g","a","t","e">>
ContentSeagate == <<"/","c","o","n","t","e","n","t","/","S","e","a","g","a","t","e">>
PresetHFHome == <<"/","h","f">>
PresetXdgCacheHome == <<"/","x","d","g">>
PresetHubCache == <<"/","h","u","b","c">>

\* a relative path is resolved against the working directory
AbsPath(dir, path) ==
    IF path # <<>> /\ path[1] = "/" THEN path ELSE dir \o <<"/">> \o path

\* os.path.ismount(path) and os.path.exists(path)
ismount(path) == AbsPath(cwd, path) \in mounts
exists(path)  == AbsPath(cwd, path) \in existing

\* f"/Volumes/{mount_point}/VSWorkspace/{model_name.replace('/', '_')}"
MountedModelDir ==
    VolumesPrefix \o mount_point \o VSWorkspace \o replace(model_name, "/", "_")

\* the cache directory the library computes, once, when it is imported:
\* HF_HUB_CACHE when set (TRANSFORMERS_CACHE acts the same way), else hub/
\* under HF_HOME, which defaults to huggingface/ under XDG_CACHE_HOME, which
\* defaults to ~/.cache
HubCacheAtImport ==
    LET cache_home == IF XDG_CACHE_HOME = <<>> THEN DefaultCacheHome ELSE XDG_CACHE_HOME
        hf_home == IF HF_HOME = <<>> THEN cache_home \o HuggingfaceDir ELSE HF_HOME
    IN IF HF_HUB_CACHE = <<>> THEN hf_home \o HubDir ELSE HF_HUB_CACHE

(***************************************************************************)
(* The cells of the notebook, in the order they stand in the file.         *)
(***************************************************************************)
Cells == <<"pip", "imports", "device", "model_name", "resolve", "load", "read_csv",
           "named_modules", "peft", "tokenize", "cuda_info", "login", "train",
           "save", "def_runExample", "infer_move", "infer_group", "infer_photos", "getcwd", "plot",
           "infer_jpg", "package">>

\* cells whose effect on the modelled state is only that they ran (the
\* %pip magic runs pip as a shell command: the cell completes whatever the
\* exit status of pip is)
PlainCells == {"pip", "device", "model_name", "named_modules", "peft", "cuda_info",
               "login", "train", "save", "def_runExample", "getcwd", "plot", "package"}

\* cells that cannot raise: the %pip magic, which does not turn a failed
\* install into an exception, and the cells that only bind a name
NeverRaises == {"pip", "model_name", "def_runExample"}

Index(c) == CHOOSE k \in DOMAIN Cells : Cells[k] = c

\* the cell executed after cell c has completed
After(c) == IF Index(c) = Len(Cells) THEN "done" ELSE Cells[Index(c) + 1]

\* an execution that goes on with the next cell after an exception
OnFailureContinue(c) == After(c)

\* no cell catches an exception: the run stops at the cell that raised
OnFailure(c) == "halted"

Ran(c, status) == [cell |-> c, status |-> status]
Completed(c) == \E k \in DOMAIN log : log[k] = Ran(c, "ok")

\* the prompts of the four inference cells
Prompt312 == <<"#","#","#"," ","I","n","s","t","r","u","c","t","i","o","n",":","\n"," ","G","r","o","u","p"," ","f","i","l","e","s"," ","b","a","s","e","d"," ","o","n"," ","m","o","n","t","h"," ","a","n","d"," ","y","e","a","r",".","\n","\n","#","#","#"," ","O","u","t","p","u","t",":","\n">>
Prompt326 == <<"#","#","#"," ","I","n","s","t","r","u","c","t","i","o","n",":","\n"," ","M","o","v","e"," ","a","l","l"," ","p","h","o","t","o","s"," ","t","o"," ","~","/","I","m","a","g","e","s",".","\n","\n","#","#","#"," ","O","u","t","p","u","t",":","\n">>
Prompt376 == <<"#","#","#"," ","I","n","s","t","r","u","c","t","i","o","n",":","\n"," ","M","o","v","e"," ","a","l","l"," ","*",".","J","P","G",","," ","*",".","J","P","E","G",","," ","*",".","M","O","V"," ","i","n"," ","c","u","r","r","e","n","t"," ","d","i","r","e","c","t","o","r","y"," ","r","e","c","u","r","s","i","v","e","l","y"," ","t","o"," ","~","/","I","m","a","g","e","s",".","\n","\n","#","#","#"," ","O","u","t","p","u","t",":","\n">>

InferPrompt(c) ==
    CASE c = "infer_move"   -> Prompt298
      [] c = "infer_group"  -> Prompt312
      [] c = "infer_photos" -> Prompt326
      [] c = "infer_jpg"    -> Prompt376

RunIdle ==
    /\ cwd = <<>> /\ mounts = {} /\ existing = {}
    /\ HF_HOME = <<>> /\ HF_HOME0 = <<>> /\ model_dir = <<>>
    /\ XDG_CACHE_HOME = <<>> /\ HF_HUB_CACHE = <<>> /\ hub_cache = <<>>
    /\ cell = "done" /\ log = <<>>
    /\ tokenizer_src = <<>> /\ model_src = <<>> /\ cache_dest = <<>>
    /\ rows = 0 /\ rows_done = 0

\* a fresh kernel: nothing has run; the drive may be mounted, the cache
\* directories may exist, HF_HOME may be set, the tokenizer pads on either side
RunInit ==
    /\ cwd \in {VolumesDir, ContentDir}
    /\ mounts \in SUBSET {VolumesSeagate, ContentSeagate}
    /\ existing \in SUBSET {VolumesSeagate, ContentSeagate, MountedModelDir,
                            AbsPath(cwd, ModelLiteral)}
    /\ mounts \subseteq existing
    /\ MountedModelDir \in existing => VolumesSeagate \in existing
    /\ HF_HOME0 \in {<<>>, PresetHFHome}
    /\ HF_HOME = HF_HOME0
    /\ XDG_CACHE_HOME \in {<<>>, PresetXdgCacheHome}
    /\ HF_HUB_CACHE \in {<<>>, PresetHubCache}
    /\ hub_cache = <<>>
    /\ model_dir = <<>>
    /\ cell = Cells[1] /\ log = <<>>
    /\ tokenizer_src = <<>> /\ model_src = <<>> /\ cache_dest = <<>>
    /\ rows = 0 /\ rows_done = 0
    /\ raw_len = 0 /\ input_ids = <<>> /\ pad_token = "unset" /\ pad_assigns = 0
    /\ padding_side \in {"left", "right"}

\* the cell ran to its end
Finish(c) ==
    /\ log' = Append(log, Ran(c, "ok"))
    /\ cell' = After(c)

\* the cell raised: it is the last of the run
Raise(c) ==
    /\ log' = Append(log, Ran(c, "fail"))
    /\ cell' = OnFailure(c)

\* a cell without modelled state (training, saving and packaging included)
PlainCell ==
    /\ cell \in PlainCells
    /\ Finish(cell)
    /\ UNCHANGED <<envVars, HF_HOME, hub_cache, model_dir, tokenizer_src, model_src,
                   cache_dest, rows, rows_done>>
    /\ UNCHANGED <<textVars, tokVars>>

\* the import cell: transformers imports the hub library, which fixes its
\* cache directory from the environment of that moment
Imports ==
    /\ cell = "imports"
    /\ hub_cache' = HubCacheAtImport
    /\ Finish("imports")
    /\ UNCHANGED <<envVars, HF_HOME, model_dir, tokenizer_src, model_src,
                   cache_dest, rows, rows_done>>
    /\ UNCHANGED <<textVars, tokVars>>

\* the import cell raising at an import after the first one (torch, pandas,
\* peft or wandb is missing): transformers is imported, the cache directory
\* is fixed
ImportsFailsAfterTransformers ==
    /\ cell = "imports"
    /\ hub_cache' = HubCacheAtImport
    /\ Raise("imports")
    /\ UNCHANGED <<envVars, HF_HOME, model_dir, tokenizer_src, model_src,
                   cache_dest, rows, rows_done>>
    /\ UNCHANGED <<textVars, tokVars>>

\* the resolver cell
Resolve ==
    /\ cell = "resolve"
    /\ IF ismount(mount_point)
       THEN /\ model_dir' = MountedModelDir
            /\ HF_HOME' = MountedModelDir
       ELSE /\ model_dir' = ModelLiteral
            /\ UNCHANGED HF_HOME
    /\ Finish("resolve")
    /\ UNCHANGED <<envVars, hub_cache, tokenizer_src, model_src, cache_dest, rows, rows_done>>
    /\ UNCHANGED <<textVars, tokVars>>

\* the first statement of either branch of the load cell: the tokenizer, from
\* the directory when it exists, else by identifier with no cache_dir
\* argument, so that the fetch is cached in the library's cache directory
LoadTokenizer ==
    IF exists(model_dir)
    THEN /\ tokenizer_src' = model_dir
         /\ UNCHANGED cache_dest
    ELSE /\ tokenizer_src' = model_name
         /\ cache_dest' = hub_cache

\* the load cell: tokenizer, then weights, from the same place
Load ==
    /\ cell = "load"
    /\ LoadTokenizer
    /\ model_src' = IF exists(model_dir) THEN model_dir ELSE model_name
    /\ Finish("load")
    /\ UNCHANGED <<envVars, HF_HOME, hub_cache, model_dir, rows, rows_done>>
    /\ UNCHANGED <<textVars, tokVars>>

\* the load cell, the tokenizer loaded and the load of the weights raising
LoadFailsAtModel ==
    /\ cell = "load"
    /\ LoadTokenizer
    /\ Raise("load")
    /\ UNCHANGED <<envVars, HF_HOME, hub_cache, model_dir, model_src, rows, rows_done>>
    /\ UNCHANGED <<textVars, tokVars>>

\* pd.read_csv("dataset.csv") and Dataset.from_pandas
ReadCsv ==
    /\ cell = "read_csv"
    /\ rows' \in 0..MaxRows
    /\ Finish("read_csv")
    /\ UNCHANGED <<envVars, HF_HOME, hub_cache, model_dir, tokenizer_src, model_src,
                   cache_dest, rows_done>>
    /\ UNCHANGED <<textVars, tokVars>>

\* the dataset cell raising in Dataset.from_pandas: the file has been read
ReadCsvFailsAtDataset ==
    /\ cell = "read_csv"
    /\ rows' \in 0..MaxRows
    /\ Raise("read_csv")
    /\ UNCHANGED <<envVars, HF_HOME, hub_cache, model_dir, tokenizer_src, model_src,
                   cache_dest, rows_done>>
    /\ UNCHANGED <<textVars, tokVars>>

\* tokenize(example), called by dataset.map for a row whose text has n tokens
TokenizeRow(n) ==
    /\ cell = "tokenize" /\ rows_done < rows
    /\ pad_token' = "eos"
    /\ pad_assigns' = pad_assigns + 1
    /\ raw_len' = n
    /\ input_ids' = Pad(Truncate(Encode(n)), padding_side, eos_token_id)
    /\ rows_done' = rows_done + 1
    /\ UNCHANGED padding_side
    /\ UNCHANGED <<envVars, HF_HOME, hub_cache, model_dir, cell, log,
                   tokenizer_src, model_src, cache_dest, rows>>
    /\ UNCHANGED textVars

\* tokenize(example) raising after its first statement: format finds no such
\* column in the row, or the tokenizer call raises
TokenizeRowFails ==
    /\ cell = "tokenize" /\ rows_done < rows
    /\ pad_token' = "eos"
    /\ pad_assigns' = pad_assigns + 1
    /\ Raise("tokenize")
    /\ UNCHANGED <<raw_len, input_ids, padding_side>>
    /\ UNCHANGED <<envVars, HF_HOME, hub_cache, model_dir, tokenizer_src, model_src,
                   cache_dest, rows, rows_done>>
    /\ UNCHANGED textVars

\* dataset.map has passed every row
TokenizeDone ==
    /\ cell = "tokenize" /\ rows_done = rows
    /\ Finish("tokenize")
    /\ UNCHANGED <<envVars, HF_HOME, hub_cache, model_dir, tokenizer_src, model_src,
                   cache_dest, rows, rows_done>>
    /\ UNCHANGED <<textVars, tokVars>>

InferCells == {"infer_move", "infer_group", "infer_photos", "infer_jpg"}

\* an inference cell: runExample on the cell's prompt; an exception of the
\* extraction ends the cell like any other
Infer(g) ==
    /\ cell \in InferCells
    /\ call' = "runExample" /\ pc' = "done"
    /\ prompt' = InferPrompt(cell)
    /\ generated' = g
    /\ output_text' = InferPrompt(cell) \o g
    /\ main_output' = ExtractMainOutput(InferPrompt(cell) \o g)
    /\ IF main_output'.ok THEN Finish(cell) ELSE Raise(cell)
    /\ UNCHANGED <<example, formatted>>
    /\ UNCHANGED <<envVars, HF_HOME, hub_cache, model_dir, tokenizer_src, model_src,
                   cache_dest, rows, rows_done>>
    /\ UNCHANGED tokVars

\* an inference cell whose runExample raises in the tokenizer call or in
\* model.generate: the prompt is bound, nothing is decoded or returned
InferFails ==
    /\ cell \in InferCells
    /\ call' = "runExample" /\ pc' = "raised"
    /\ prompt' = InferPrompt(cell)
    /\ generated' = <<>>
    /\ output_text' = <<>>
    /\ main_output' = Raised("generate")
    /\ Raise(cell)
    /\ UNCHANGED <<example, formatted>>
    /\ UNCHANGED <<envVars, HF_HOME, hub_cache, model_dir, tokenizer_src, model_src,
                   cache_dest, rows, rows_done>>
    /\ UNCHANGED tokVars

\* the first statement of a cell that changes the modelled state raises (no
\* module, no file, no network, out of memory, ...): nothing of the cell has
\* taken effect
Fail ==
    /\ cell \notin {"done", "halted"} \cup NeverRaises \cup InferCells
    /\ Raise(cell)
    /\ UNCHANGED <<envVars, HF_HOME, hub_cache, model_dir, tokenizer_src, model_src,
                   cache_dest, rows, rows_done>>
    /\ UNCHANGED <<textVars, tokVars>>

(***************************************************************************)
(* Specifications.                                                         *)
(***************************************************************************)
TextNext ==
    \/ Format /\ UNCHANGED <<tokVars, runVars>>
    \/ RunExample /\ UNCHANGED <<tokVars, runVars>>

\* the text functions on drawn inputs
InitText == TextInit /\ TokIdle /\ RunIdle

SpecText == InitText /\ [][TextNext]_vars

\* the tokenize cell of a run that has come to it, with one row to tokenize
TokInit ==
    /\ TextIdle
    /\ cwd = ContentDir /\ mounts = {} /\ existing = {}
    /\ HF_HOME = <<>> /\ HF_HOME0 = <<>> /\ model_dir = ModelLiteral
    /\ XDG_CACHE_HOME = <<>> /\ HF_HUB_CACHE = <<>> /\ hub_cache = HubCacheAtImport
    /\ cell = "tokenize"
    /\ log = [k \in 1..(Index("tokenize") - 1) |-> Ran(Cells[k], "ok")]
    /\ tokenizer_src = model_name /\ model_src = model_name
    /\ cache_dest = HubCacheAtImport
    /\ rows = 1 /\ rows_done = 0
    /\ raw_len = 0 /\ input_ids = <<>> /\ pad_token = "unset" /\ pad_assigns = 0
    /\ padding_side \in {"left", "right"}

TokNext == \E n \in 0..(max_length + MaxOverflow) : TokenizeRow(n)

SpecTok == TokInit /\ [][TokNext]_vars

RunNext ==
    \/ PlainCell
    \/ Imports
    \/ ImportsFailsAfterTransformers
    \/ Resolve
    \/ Load
    \/ LoadFailsAtModel
    \/ ReadCsv
    \/ ReadCsvFailsAtDataset
    \/ \E n \in {0, max_length + MaxOverflow} : TokenizeRow(n)
    \/ TokenizeRowFails
    \/ TokenizeDone
    \/ \E g \in Continuations : Infer(g)
    \/ InferFails
    \/ Fail

\* the notebook run from a fresh kernel, cell after cell
InitRun == TextIdle /\ RunInit

SpecRun == InitRun /\ [][RunNext]_vars

(***************************************************************************)
(* The claims about the text functions, checked under SpecText.            *)
(***************************************************************************)
FormatDone == call = "format" /\ pc = "done"
RunDone    == call \in {"runExample", "cell"} /\ pc = "done"
CellDone   == call = "cell" /\ pc = "done"

\* the string the claim writes, '### Instruction:\n' + I + '\n\n### Output:\n' + O
C1_Expected(I, O) ==
    <<"#","#","#"," ","I","n","s","t","r","u","c","t","i","o","n",":","\n">> \o I
        \o <<"\n","\n","#","#","#"," ","O","u","t","p","u","t",":","\n">> \o O

\* C1: format returns exactly '### Instruction:\n' + I + '\n\n### Output:\n' + O for
\* the row's instruction I and output O: every character of I and of O is
\* there, unescaped and untruncated, and nothing else is.
C1_FormatExact ==
    FormatDone =>
        /\ formatted = C1_Expected(example["English understanding"], example["Shell script"])
        /\ Len(formatted) = 31 + Len(example["English understanding"])
                               + Len(example["Shell script"])

\* format was given 'Move all files from A to B' and an output holding a quote
\* and a backslash, and returned the prompt of the notebook followed by them
C1_Witness ==
    /\ FormatDone
    /\ example["English understanding"] = MoveAll
    /\ \E k \in DOMAIN example["Shell script"] : example["Shell script"][k] = "\\"
    /\ formatted = Prompt298 \o example["Shell script"]

\* X is a non-empty string without '#' and without leading or trailing whitespace
GoodAnswer(X) ==
    /\ X # <<>>
    /\ \A k \in DOMAIN X : X[k] # "#"
    /\ X[1] \notin Whitespace /\ X[Len(X)] \notin Whitespace

\* text holds '### Output:\n' at i, then X, then '\n###' at j
SectionAt(text, i, j) ==
    /\ i + 12 <= j /\ j + 3 <= Len(text)
    /\ SubSeq(text, i, i + 11) = OutputMarker \o <<"\n">>
    /\ SubSeq(text, j, j + 3) = <<"\n">> \o SectionMarker
    /\ GoodAnswer(SubSeq(text, i + 12, j - 1))

\* C2: whenever the decoded text contains '### Output:\nX\n###' the extraction
\* returns X, whatever comes before or after; stated here for the texts in
\* which that substring holds the first '### Output:', where the first and
\* the claimed section are the same one.
C2_SectionExtracted ==
    RunDone =>
        \A i, j \in 1..Len(output_text) :
            (/\ SectionAt(output_text, i, j)
             /\ Find(SubSeq(output_text, 1, i - 1), OutputMarker) = 0) =>
                main_output = Returned(SubSeq(output_text, i + 12, j - 1))

\* C3: when the decoded text does not contain '### Output:' the extraction
\* raises IndexError and returns no value.
C3_NoMarkerRaises ==
    (RunDone /\ Find(output_text, OutputMarker) = 0) =>
        /\ ~main_output.ok
        /\ main_output.err = "IndexError"

\* a text with '###' but without '### Output:' made runExample raise
C3_Witness ==
    /\ RunDone
    /\ Find(output_text, OutputMarker) = 0
    /\ Find(output_text, SectionMarker) # 0
    /\ main_output = Raised("IndexError")

\* the procedure of the claim: everything after the first '### Output:',
\* stripped, then the text before the first '###', stripped
C4_Procedure(text) ==
    LET i == Find(text, OutputMarker)
        after == strip(SubSeq(text, i + Len(OutputMarker), Len(text)))
        k == Find(after, SectionMarker)
    IN strip(IF k = 0 THEN after ELSE SubSeq(after, 1, k - 1))

\* C4: when the decoded text contains '### Output:' the extraction returns what
\* the procedure returns.
C4_SameAsProcedure ==
    (RunDone /\ Find(output_text, OutputMarker) # 0) =>
        main_output = Returned(C4_Procedure(output_text))

\* C5, as claimed: for the formatter's prompt with an empty output, followed by
\* any continuation, runExample returns a non-empty string without '###'.
C5_NonEmptyNoMarker ==
    CellDone =>
        /\ main_output.ok
        /\ main_output.val # <<>>
        /\ Find(main_output.val, SectionMarker) = 0

\* C5, amended: runExample returns a string without '###', which may be empty:
\* for an instruction without '### Output:' it is empty whenever the
\* continuation is empty or only whitespace.
C5_NoMarkerMaybeEmpty ==
    CellDone =>
        /\ main_output.ok
        /\ Find(main_output.val, SectionMarker) = 0
        /\ (/\ Find(example["English understanding"], OutputMarker) = 0
            /\ lstrip(generated) = <<>>) => main_output.val = <<>>

\* the notebook's prompt, followed by an answer and a new section, gave a
\* non-empty answer
C5_Witness ==
    /\ CellDone
    /\ prompt = Prompt298
    /\ Find(generated, SectionMarker) > 1
    /\ main_output.ok /\ main_output.val # <<>>
(***************************************************************************)
(* The claim about tokenize, checked under SpecTok.                        *)
(***************************************************************************)
Tokenized == rows_done > 0

\* n copies of the end-of-sequence id
EosFill(n) == [i \in 1..n |-> eos_token_id]

\* C7, as claimed: the token-id sequence has exactly 512 entries: a longer
\* input is cut to its first 512 ids, a shorter one is followed by
\* end-of-sequence ids up to 512.
C7_RightPadded ==
    Tokenized =>
        /\ Len(input_ids) = 512
        /\ raw_len > 512 => input_ids = SubSeq(Encode(raw_len), 1, 512)
        /\ raw_len <= 512 => input_ids = Encode(raw_len) \o EosFill(512 - raw_len)

\* C7, amended: the token-id sequence has exactly 512 entries: a longer input
\* is cut to its first 512 ids, a shorter one is filled up to 512 with
\* end-of-sequence ids on the side the loaded tokenizer pads on, which the
\* notebook does not set: the ids are followed or preceded by the filling.
C7_PaddedToMaxLength ==
    Tokenized =>
        /\ Len(input_ids) = 512
        /\ raw_len > 512 => input_ids = SubSeq(Encode(raw_len), 1, 512)
        /\ raw_len <= 512 =>
              \/ input_ids = Encode(raw_len) \o EosFill(512 - raw_len)
              \/ input_ids = EosFill(512 - raw_len) \o Encode(raw_len)

\* a text longer than the maximum was cut to its first 512 ids
C7_Witness ==
    /\ Tokenized
    /\ raw_len > max_length
    /\ Len(input_ids) = max_length
    /\ input_ids[max_length] = max_length

(***************************************************************************)
(* The claims about the notebook run, checked under SpecRun.               *)
(***************************************************************************)
\* '/Volumes/Seagate/VSWorkspace/deepseek-ai_deepseek-coder-1.3b-base'
C6_CacheRoot == <<"/","V","o","l","u","m","e","s","/","S","e","a","g","a","t","e","/","V","S","W","o","r","k","s","p","a","c","e","/","d","e","e","p","s","e","e","k","-","a","i","_","d","e","e","p","s","e","e","k","-","c","o","d","e","r","-","1",".","3","b","-","b","a","s","e">>

\* C6: after the resolver step, if the external mount path /Volumes/Seagate
\* exists (the drive is mounted there) then model_dir and HF_HOME are the
\* directory under it named after the model; if it does not then model_dir
\* is 'model' and HF_HOME is left as it was.
C6_ResolvedByMountPath ==
    Completed("resolve") =>
        IF VolumesSeagate \in mounts
        THEN model_dir = C6_CacheRoot /\ HF_HOME = C6_CacheRoot
        ELSE model_dir = ModelLiteral /\ HF_HOME = HF_HOME0

\* C8: after the load step, the tokenizer and the weights were both loaded
\* from the cache root directory when it exists, and were otherwise both
\* fetched by the model identifier and cached into that same directory.
C8_LoadedFromOrCachedIntoModelDir ==
    Completed("load") =>
        IF exists(model_dir)
        THEN tokenizer_src = model_dir /\ model_src = model_dir
        ELSE /\ tokenizer_src = model_name /\ model_src = model_name
             /\ cache_dest = model_dir

\* C9: the padding token is assigned once in a run and never again: it has
\* been assigned when the first row is padded and when the tokenized dataset
\* goes to the collator and the trainer, and no later call of tokenize
\* assigns it a second time.
C9_PadTokenAssignedOnce ==
    /\ pad_assigns <= 1
    /\ rows_done > 0 => pad_assigns = 1 /\ pad_token = "eos"
    /\ (Completed("tokenize") /\ rows > 0) => pad_assigns = 1

\* C10: the cells run in the order of the notebook, each at most once and
\* only after every earlier one has completed without failure: load before
\* tokenize before train before save before inference; after a failure no
\* cell runs.
C10_SequentialNoRetry ==
    /\ \A k \in DOMAIN log :
          /\ log[k].cell = Cells[k]
          /\ k < Len(log) => log[k].status = "ok"
    /\ \A k \in DOMAIN log : log[k].status = "fail" => cell = "halted"
    /\ cell \notin {"done", "halted"} => cell = Cells[Len(log) + 1]
    /\ Completed("save") => Completed("train")
    /\ Completed("infer_move") => Completed("save")
    /\ Completed("package") => Completed("train")

\* training failed after load and tokenize had completed, and the run stopped
\* there: nothing was saved
C10_Witness ==
    /\ cell = "halted"
    /\ Completed("load") /\ Completed("tokenize")
    /\ log[Len(log)] = Ran("train", "fail")
    /\ ~Completed("save")
====
